---------------------------- MODULE Spec2Model ----------------------------
(***************************************************************************)
(* A model of regions/shapes/ellipse.py: EllipsePixelRegion and            *)
(* EllipseSkyRegion.                                                       *)
(*                                                                         *)
(* Lengths and coordinates of the pixel frame are integers that count      *)
(* HALF PIXELS (a value v stands for v/2 pixels).  The inputs are chosen   *)
(* so that every halving the code performs (0.5 * x, x / 2) is exact, as   *)
(* it is in binary floating point.  Angles are integers in degrees.        *)
(*                                                                         *)
(* Four specifications share the variables:                                *)
(*   Spec            the matplotlib selector binding, one GUI thread       *)
(*   SpecConcurrent  Spec plus a reader thread                             *)
(*   SpecGeom        contains, bounding_box, to_mask                       *)
(*   SpecFrame       to_sky, to_pixel and the meta/visual objects          *)
(***************************************************************************)
EXTENDS Integers, Sequences, FiniteSets, TLC

VARIABLES
    center,                 \* self.center : [x, y]
    width,                  \* self.width
    height,                 \* self.height
    angle,                  \* self.angle (degrees)
    meta,                   \* self.meta   : a reference into heap
    visual,                 \* self.visual : a reference into heap
    heap,                   \* the dict objects, by reference
    mpl_selector,           \* self._mpl_selector, Unset while the attribute is not set
    mpl_selector_callback,  \* self._mpl_selector_callback
    pc,                     \* position of the GUI thread inside _update_from_mpl_selector
    loc,                    \* the locals xmin, xmax, ymin, ymax of _update_from_mpl_selector
    raised,                 \* outcome of the last as_mpl_selector call
    ncalls,                 \* number of as_mpl_selector calls made
    nevents,                \* number of selector events dispatched
    ncb,                    \* number of invocations of the user callback
    lastcb,                 \* what the user callback saw at its last invocation
    upd,                    \* parameters at the start and at the end of the running update
    observed,               \* what the reader thread read last
    result,                 \* outcome of the last geometric operation
    wcs,                    \* the projection handed to to_sky / to_pixel
    sky,                    \* the EllipseSkyRegion returned by to_sky
    pixel,                  \* the EllipsePixelRegion returned by sky.to_pixel
    lastop,                 \* the last operation of the frame specification
    nconv                   \* number of frame conversions made

vars == <<center, width, height, angle, meta, visual, heap, mpl_selector,
          mpl_selector_callback, pc, loc, raised, ncalls, nevents, ncb, lastcb,
          upd, observed, result, wcs, sky, pixel, lastop, nconv>>

selVars   == <<mpl_selector, mpl_selector_callback, pc, loc, raised, ncalls,
               nevents, ncb, lastcb, upd, observed>>
geomVars  == <<result>>
frameVars == <<wcs, sky, pixel, lastop, nconv>>

(* ----------------------------- bounds ---------------------------------- *)

MaxCoord     == 1    \* centers and event extents range over 0 .. MaxCoord pixels
MaxAxis      == 2    \* widths and heights range over 0 .. MaxAxis pixels
MaxCalls     == 3    \* as_mpl_selector calls per behaviour
MaxEvents    == 2    \* selector events per behaviour
MaxSubpixels == 2    \* the subpixels argument ranges over 0 .. MaxSubpixels
MaxConv      == 2    \* frame conversions per behaviour
MantissaBits == 6    \* significand width of the model's floating point

(* --------------------------- common values ----------------------------- *)

Absent == "absent"         \* hasattr(...) is False / key not in dict
None   == "None"
NaN    == "nan"

\* a record-valued variable that holds no record: an attribute that is not set
\* (hasattr is False), a local not yet assigned, a region not yet made
Unset == [unset |-> TRUE]

\* 0.5 * v and v / 2 on a value that is a whole number of pixels
Half(v) == v \div 2

Px(n) == 2 * n             \* n pixels, in half pixels

Abs(n) == IF n < 0 THEN -n ELSE n

Params == [center |-> center, width |-> width, height |-> height, angle |-> angle]

\* a RegionMeta / RegionVisual dict; a key that is not set is Absent
EmptyDict == [include |-> Absent, label |-> Absent, color |-> Absent]

IsEmpty(d) == d = EmptyDict


(* ------------------ the selector binding (lines 212-286) --------------- *)

\* mutant: the guard against a second selector is missing
HasSelector_Missing == FALSE

\* line 259: hasattr(self, '_mpl_selector')
HasSelector == mpl_selector # Unset

\* mutant: the guard against a rotated ellipse is missing
IsRotated_Missing == FALSE

\* line 262: self.angle.value != 0
IsRotated == angle # 0

\* mutant: sync is ignored, the selector is always synchronised
SyncCallback_Always(sync) == "_update_from_mpl_selector"

\* lines 265-269: the function handed to EllipseSelector as onselect
SyncCallback(sync) == IF sync THEN "_update_from_mpl_selector" ELSE "pass"

\* lines 276-279: the extents the new selector is given
SelectorExtents ==
    [xmin |-> center.x - Half(width),  xmax |-> center.x + Half(width),
     ymin |-> center.y - Half(height), ymax |-> center.y + Half(height)]

\* lines 271-275: rectprops, from self.visual
RectProps == [edgecolor |-> IF heap[visual].color = Absent THEN "black"
                            ELSE heap[visual].color]

\* lines 214-215: PixCoord(x=0.5 * (xmin + xmax), y=0.5 * (ymin + ymax))
UpdatedCenter(e) == [x |-> Half(e.xmin + e.xmax), y |-> Half(e.ymin + e.ymax)]

\* mutant: the width is taken to be the right edge
UpdatedWidth_Edge(e) == e.xmax

\* line 216: (xmax - xmin)
UpdatedWidth(e) == e.xmax - e.xmin

\* line 217: (ymax - ymin)
UpdatedHeight(e) == e.ymax - e.ymin

\* line 218: 0. * u.deg
UpdatedAngle == 0

UpdatedParams(e) == [center |-> UpdatedCenter(e), width |-> UpdatedWidth(e),
                     height |-> UpdatedHeight(e), angle |-> UpdatedAngle]

\* lines 219, 283: self._mpl_selector_callback is not None
CallbackSet == mpl_selector_callback # None

\* lines 220, 284: self._mpl_selector_callback(self); the callback reads its argument
CallbackSees(p, ev) == [arg |-> "self", params |-> p, event |-> ev]

\* lines 222-286
as_mpl_selector(active, sync, callback) ==
    /\ pc = "idle"
    /\ ncalls < MaxCalls
    /\ ncalls' = ncalls + 1
    /\ IF HasSelector
         THEN /\ raised' = "Exception"
              /\ UNCHANGED <<mpl_selector, mpl_selector_callback, ncb, lastcb>>
         ELSE IF IsRotated
         THEN /\ raised' = "NotImplementedError"
              /\ UNCHANGED <<mpl_selector, mpl_selector_callback, ncb, lastcb>>
         ELSE /\ mpl_selector' = [id        |-> ncalls + 1,
                                  sync      |-> sync,   \* the argument, for the record
                                  onselect  |-> SyncCallback(sync),
                                  rectprops |-> RectProps,
                                  extents   |-> SelectorExtents,
                                  active    |-> active]
              /\ mpl_selector_callback' = callback
              /\ IF sync /\ callback # None
                   THEN /\ ncb' = ncb + 1
                        /\ lastcb' = CallbackSees(Params, 0)
                   ELSE UNCHANGED <<ncb, lastcb>>
              /\ raised' = "ok"
    /\ UNCHANGED <<center, width, height, angle, meta, visual, heap, pc, loc,
                   nevents, upd, observed>>
    /\ UNCHANGED <<geomVars, frameVars>>

\* The selector reports new extents: matplotlib stores them and calls onselect.
\* lines 252-254: an inactive selector reports nothing.  lines 268-269: the
\* unsynchronised onselect returns at once.
selector_event(e) ==
    /\ pc = "idle"
    /\ HasSelector
    /\ mpl_selector.active
    /\ nevents < MaxEvents
    /\ nevents' = nevents + 1
    /\ mpl_selector' = [mpl_selector EXCEPT !.extents = e]
    /\ IF mpl_selector.onselect = "_update_from_mpl_selector"
         THEN /\ pc' = "L213"
              /\ upd' = [old |-> Params, new |-> UpdatedParams(e)]
         ELSE UNCHANGED <<pc, upd>>
    /\ UNCHANGED <<center, width, height, angle, meta, visual, heap,
                   mpl_selector_callback, loc, raised, ncalls, ncb, lastcb, observed>>
    /\ UNCHANGED <<geomVars, frameVars>>

\* line 213
update_L213 ==
    /\ pc = "L213"
    /\ loc' = mpl_selector.extents
    /\ pc' = "L214"
    /\ UNCHANGED <<center, width, height, angle, meta, visual, heap, mpl_selector,
                   mpl_selector_callback, raised, ncalls, nevents, ncb, lastcb,
                   upd, observed>>
    /\ UNCHANGED <<geomVars, frameVars>>

\* lines 214-215
update_L214 ==
    /\ pc = "L214"
    /\ center' = UpdatedCenter(loc)
    /\ pc' = "L216"
    /\ UNCHANGED <<width, height, angle, meta, visual, heap, mpl_selector,
                   mpl_selector_callback, loc, raised, ncalls, nevents, ncb, lastcb,
                   upd, observed>>
    /\ UNCHANGED <<geomVars, frameVars>>

\* line 216
update_L216 ==
    /\ pc = "L216"
    /\ width' = UpdatedWidth(loc)
    /\ pc' = "L217"
    /\ UNCHANGED <<center, height, angle, meta, visual, heap, mpl_selector,
                   mpl_selector_callback, loc, raised, ncalls, nevents, ncb, lastcb,
                   upd, observed>>
    /\ UNCHANGED <<geomVars, frameVars>>

\* line 217
update_L217 ==
    /\ pc = "L217"
    /\ height' = UpdatedHeight(loc)
    /\ pc' = "L218"
    /\ UNCHANGED <<center, width, angle, meta, visual, heap, mpl_selector,
                   mpl_selector_callback, loc, raised, ncalls, nevents, ncb, lastcb,
                   upd, observed>>
    /\ UNCHANGED <<geomVars, frameVars>>

\* line 218
update_L218 ==
    /\ pc = "L218"
    /\ angle' = UpdatedAngle
    /\ pc' = "L219"
    /\ UNCHANGED <<center, width, height, meta, visual, heap, mpl_selector,
                   mpl_selector_callback, loc, raised, ncalls, nevents, ncb, lastcb,
                   upd, observed>>
    /\ UNCHANGED <<geomVars, frameVars>>

\* lines 219-220
update_L219 ==
    /\ pc = "L219"
    /\ IF CallbackSet
         THEN /\ ncb' = ncb + 1
              /\ lastcb' = CallbackSees(Params, nevents)
         ELSE UNCHANGED <<ncb, lastcb>>
    /\ pc' = "idle"
    /\ UNCHANGED <<center, width, height, angle, meta, visual, heap, mpl_selector,
                   mpl_selector_callback, loc, raised, ncalls, nevents, upd, observed>>
    /\ UNCHANGED <<geomVars, frameVars>>

\* line 68: the caller assigns region.angle
set_angle(a) ==
    /\ pc = "idle"
    /\ a # angle
    /\ angle' = a
    /\ upd' = [old |-> [Params EXCEPT !.angle = a], new |-> [Params EXCEPT !.angle = a]]
    /\ UNCHANGED <<center, width, height, meta, visual, heap, mpl_selector,
                   mpl_selector_callback, pc, loc, raised, ncalls, nevents, ncb,
                   lastcb, observed>>
    /\ UNCHANGED <<geomVars, frameVars>>

\* Another thread reads the four parameters, as contains (lines 86-91),
\* bounding_box (lines 118-143), to_mask and area (line 82) do.
reader ==
    /\ observed' = [params |-> Params, old |-> upd.old, new |-> upd.new]
    /\ observed' # observed
    /\ UNCHANGED <<center, width, height, angle, meta, visual, heap, mpl_selector,
                   mpl_selector_callback, pc, loc, raised, ncalls, nevents, ncb,
                   lastcb, upd>>
    /\ UNCHANGED <<geomVars, frameVars>>

\* the extents a selector reports, in pixels: a click without a drag, a wide box,
\* a tall box and a box away from the origin
Rect(x0, x1, y0, y1) == [xmin |-> Px(x0), xmax |-> Px(x1), ymin |-> Px(y0), ymax |-> Px(y1)]

EventExtents == {Rect(0, 0, 0, 0), Rect(0, 2, 0, 1), Rect(1, 2, 0, 2), Rect(1, 3, 1, 2)}

SelAngles == {0, 90}

NoResult == [op |-> "none"]
NoWcs    == [crval1 |-> 0, crval2 |-> 0, scale |-> 1, north_angle |-> 90]

\* lines 70-77: a region as constructed, before any selector is attached
Init ==
    /\ center \in [x : 0..Px(MaxCoord), y : 0..Px(MaxCoord)]
    /\ width  \in {Px(i) : i \in 0..MaxAxis}
    /\ height \in {Px(i) : i \in 0..MaxAxis}
    /\ angle  \in SelAngles
    /\ meta = 1 /\ visual = 2
    /\ heap = <<EmptyDict, EmptyDict>>
    /\ mpl_selector = Unset
    /\ mpl_selector_callback = Absent
    /\ pc = "idle"
    /\ loc = Unset
    /\ raised = "none"
    /\ ncalls = 0 /\ nevents = 0 /\ ncb = 0
    /\ lastcb = Unset
    /\ upd = [old |-> Params, new |-> Params]
    /\ observed = Unset
    /\ result = NoResult
    /\ wcs = NoWcs
    /\ sky = Unset /\ pixel = Unset
    /\ lastop = "init"
    /\ nconv = 0

Next ==
    \/ \E active \in BOOLEAN, sync \in BOOLEAN, callback \in {None, "callback"} :
           as_mpl_selector(active, sync, callback)
    \/ \E e \in EventExtents : selector_event(e)
    \/ update_L213
    \/ update_L214
    \/ update_L216
    \/ update_L217
    \/ update_L218
    \/ update_L219
    \/ \E a \in SelAngles : set_angle(a)

Spec == Init /\ [][Next]_vars

\* a host that runs readers on a second thread, started on one region
InitConcurrent ==
    /\ Init
    /\ center = [x |-> 1, y |-> 1]
    /\ angle = 0

NextConcurrent == Next \/ reader

SpecConcurrent == InitConcurrent /\ [][NextConcurrent]_vars

(* ------------------------ claims: the selector ------------------------- *)

\* the parameters _update_from_mpl_selector is to reach for extents e
ExpectedParams(e) ==
    [center |-> [x |-> (e.xmin + e.xmax) \div 2, y |-> (e.ymin + e.ymax) \div 2],
     width |-> e.xmax - e.xmin, height |-> e.ymax - e.ymin, angle |-> 0]

\* C1: at most one selector is ever attached to a region: once a selector is
\* attached it is never replaced, and every later as_mpl_selector call raises
\* and leaves the selector, the registered callback and the region's center,
\* width, height and angle unchanged.
C1_SingleSelector ==
    [][ /\ mpl_selector # Unset =>
              /\ mpl_selector' # Unset
              /\ mpl_selector'.id = mpl_selector.id
        /\ (mpl_selector # Unset /\ ncalls' = ncalls + 1) =>
              /\ raised' = "Exception"
              /\ mpl_selector' = mpl_selector
              /\ mpl_selector_callback' = mpl_selector_callback
              /\ Params' = Params
              /\ ncb' = ncb ]_vars

\* a second call was rejected on a region whose selector has reported events
C1_Witness == raised = "Exception" /\ mpl_selector # Unset /\ nevents > 0

\* C2: as_mpl_selector on an unbound region with a non-zero angle raises
\* without creating a selector (no selector, no callback recorded, parameters
\* unchanged, callback not invoked); a call on an unbound region whose angle
\* is zero, also after such a rejection, is not rejected as a second binding.
C2_RotatedRejected ==
    [][ (mpl_selector = Unset /\ ncalls' = ncalls + 1) =>
           IF angle # 0
             THEN /\ raised' = "NotImplementedError"
                  /\ mpl_selector' = Unset
                  /\ mpl_selector_callback' = Absent
                  /\ Params' = Params
                  /\ ncb' = ncb /\ lastcb' = lastcb
             ELSE /\ raised' = "ok"
                  /\ mpl_selector' # Unset ]_vars

\* a selector attached by a call that followed a rejected one: the region was
\* rotated at the earlier call and its angle has become zero since
C2_Witness == mpl_selector # Unset /\ mpl_selector.id >= 2 /\ raised = "ok"

\* C3: with sync=True every selector event sets center, width, height and angle
\* from the reported extents; the callback runs only after all four hold their
\* new values, once per event, with the region as argument; with no callback
\* registered the fields are updated and nothing is invoked.
C3_SyncUpdate ==
    (mpl_selector # Unset /\ mpl_selector.sync) =>
        /\ pc = "L219" => Params = ExpectedParams(mpl_selector.extents)
        /\ (pc = "idle" /\ nevents > 0) =>
               /\ center = ExpectedParams(mpl_selector.extents).center
               /\ width  = ExpectedParams(mpl_selector.extents).width
               /\ height = ExpectedParams(mpl_selector.extents).height
        /\ (lastcb # Unset /\ lastcb.event > 0) => lastcb.arg = "self"
        /\ (lastcb # Unset /\ lastcb.event > 0 /\ lastcb.event = nevents) =>
               lastcb.params = ExpectedParams(mpl_selector.extents)
        /\ ncb = IF mpl_selector_callback = "callback"
                   THEN 1 + nevents - (IF pc = "idle" THEN 0 ELSE 1)
                   ELSE 0

\* the callback has run for the second event of a synchronised selector
C3_Witness ==
    /\ mpl_selector # Unset
    /\ mpl_selector.sync
    /\ lastcb # Unset /\ lastcb.event = 2 /\ ncb = 3
    /\ width > 0 /\ pc = "idle"

\* C4: no reader running beside _update_from_mpl_selector sees some of center,
\* width, height, angle already rewritten and others not: what it reads is the
\* parameters before the update or the parameters after it.
C4_AtomicUpdate ==
    observed # Unset => observed.params \in {observed.old, observed.new}

\* C9: a selector made with sync=False starts with the region's extents; after
\* that no selector event changes center, width, height or angle, and the
\* callback is invoked neither at creation nor on any event.
C9_Unsynchronised ==
    [][ /\ (mpl_selector = Unset /\ mpl_selector' # Unset
               /\ ~mpl_selector'.sync) =>
              /\ 2 * mpl_selector'.extents.xmin = 2 * center.x - width
              /\ 2 * mpl_selector'.extents.xmax = 2 * center.x + width
              /\ 2 * mpl_selector'.extents.ymin = 2 * center.y - height
              /\ 2 * mpl_selector'.extents.ymax = 2 * center.y + height
              /\ ncb' = 0
        /\ (mpl_selector # Unset /\ ~mpl_selector.sync) =>
              /\ ncb' = 0
              /\ pc' = "idle"
              /\ nevents' # nevents => Params' = Params ]_vars

\* an unsynchronised selector with a callback has reported two events and its
\* extents no longer are the region's
C9_Witness ==
    /\ mpl_selector # Unset
    /\ ~mpl_selector.sync
    /\ mpl_selector_callback = "callback"
    /\ nevents >= 2
    /\ mpl_selector.extents.xmax - mpl_selector.extents.xmin # width


(* ------------- geometry: contains, bounding_box, to_mask --------------- *)

(***************************************************************************)
(* The angles of this part are multiples of 90 degrees.  np.cos, np.sin    *)
(* and np.tan are modelled by what they return in double precision, up to  *)
(* the order of magnitude: cos(90 deg) = 6.1e-17 and sin(180 deg) =        *)
(* 1.2e-16 vanish beside the lengths they are added to and are 0 here,     *)
(* while tan keeps its class, because the code divides by it:              *)
(* tan(0) = 0.0 exactly, tan(90 deg) = 1.6e16 and tan(270 deg) = 5.4e15    *)
(* are huge and finite, tan(180 deg) = -1.2e-16 is tiny and not zero.      *)
(* Quotients follow IEEE 754, as numpy computes them: x/0 is an infinity,  *)
(* 0/0 is a NaN, and neither raises.                                       *)
(***************************************************************************)

GeomAngles == {0, 90, 180, 270}

Quadrant(a) == (a \div 90) % 4

\* np.cos, lines 86, 118, 125-126, 134-135
Cos(a) == CASE Quadrant(a) = 0 -> 1
            [] Quadrant(a) = 1 -> 0
            [] Quadrant(a) = 2 -> -1
            [] Quadrant(a) = 3 -> 0

\* np.sin, lines 87, 119, 125-126, 134-135
Sin(a) == CASE Quadrant(a) = 0 -> 0
            [] Quadrant(a) = 1 -> 1
            [] Quadrant(a) = 2 -> 0
            [] Quadrant(a) = 3 -> -1

\* a double by its class and sign
Cls(k, sgn) == [k |-> k, s |-> sgn]

ClsOf(n) == IF n = 0 THEN Cls("zero", 1) ELSE Cls("fin", IF n < 0 THEN -1 ELSE 1)

Ord(x) == CASE x.k = "tiny" -> -1 [] x.k = "fin" -> 0 [] x.k = "huge" -> 1

OfOrd(o, sgn) == Cls(IF o < 0 THEN "tiny" ELSE IF o = 0 THEN "fin" ELSE "huge", sgn)

\* np.tan, line 120
Tan(a) == CASE Quadrant(a) = 0 -> Cls("zero", 1)
            [] Quadrant(a) = 1 -> Cls("huge", 1)
            [] Quadrant(a) = 2 -> Cls("tiny", -1)
            [] Quadrant(a) = 3 -> Cls("huge", 1)

\* the product of two doubles, lines 122
Mul(x, y) ==
    IF x.k = "nan" \/ y.k = "nan" THEN Cls("nan", 1)
    ELSE IF (x.k = "zero" /\ y.k = "inf") \/ (x.k = "inf" /\ y.k = "zero") THEN Cls("nan", 1)
    ELSE IF x.k = "zero" \/ y.k = "zero" THEN Cls("zero", x.s * y.s)
    ELSE IF x.k = "inf" \/ y.k = "inf" THEN Cls("inf", x.s * y.s)
    ELSE OfOrd(Ord(x) + Ord(y), x.s * y.s)

\* the quotient of two doubles, lines 122, 131: no ZeroDivisionError, an inf or a nan
Div(x, y) ==
    IF x.k = "nan" \/ y.k = "nan" THEN Cls("nan", 1)
    ELSE IF (x.k = "zero" /\ y.k = "zero") \/ (x.k = "inf" /\ y.k = "inf") THEN Cls("nan", 1)
    ELSE IF y.k = "zero" THEN Cls("inf", x.s * y.s)
    ELSE IF x.k = "zero" THEN Cls("zero", x.s * y.s)
    ELSE IF x.k = "inf" THEN Cls("inf", x.s * y.s)
    ELSE IF y.k = "inf" THEN Cls("zero", x.s * y.s)
    ELSE OfOrd(Ord(x) - Ord(y), x.s * y.s)

\* a parameter t of the ellipse in degrees, or a NaN
Num(n) == [v |-> n]
NaNv   == [nan |-> TRUE]

\* np.arctan, lines 122, 131: of a zero or tiny value 0, of a huge or infinite one
\* +-90 degrees, of a NaN a NaN
Arctan(x) == CASE x.k = "nan" -> NaNv
               [] x.k \in {"zero", "tiny"} -> Num(0)
               [] x.k \in {"huge", "inf"} -> Num(90 * x.s)

\* lines 123, 132: t1 + np.pi * u.rad
PlusPi(t) == IF t = NaNv THEN NaNv ELSE Num(t.v + 180)

\* lines 125-126: 0.5 * width * cos_angle * cos(t) - 0.5 * height * sin_angle * sin(t)
DxAt(w, h, a, t) ==
    IF t = NaNv THEN NaNv
    ELSE Num(Half(w) * Cos(a) * Cos(t.v) - Half(h) * Sin(a) * Sin(t.v))

\* lines 134-135: 0.5 * height * cos_angle * sin(t) + 0.5 * width * sin_angle * cos(t)
DyAt(w, h, a, t) ==
    IF t = NaNv THEN NaNv
    ELSE Num(Half(h) * Cos(a) * Sin(t.v) + Half(w) * Sin(a) * Cos(t.v))

\* lines 128, 137: d1 > d2, False when either is a NaN
Greater(d1, d2) == d1 # NaNv /\ d2 # NaNv /\ d1.v > d2.v

\* lines 140-143: self.center.x + dx1
Offset(c, d) == IF d = NaNv THEN NaNv ELSE Num(c + d.v)

\* lines 118-143: the continuous extents xmin, xmax, ymin, ymax
BoundingBoxExtents(c, w, h, a) ==
    LET tx1 == Arctan(Div(Mul(ClsOf(-h), Tan(a)), ClsOf(w)))
        tx2 == PlusPi(tx1)
        dxa == DxAt(w, h, a, tx1)
        dxb == DxAt(w, h, a, tx2)
        dx1 == IF Greater(dxa, dxb) THEN dxb ELSE dxa
        dx2 == IF Greater(dxa, dxb) THEN dxa ELSE dxb
        ty1 == Arctan(Div(Div(ClsOf(h), Tan(a)), ClsOf(w)))
        ty2 == PlusPi(ty1)
        dya == DyAt(w, h, a, ty1)
        dyb == DyAt(w, h, a, ty2)
        dy1 == IF Greater(dya, dyb) THEN dyb ELSE dya
        dy2 == IF Greater(dya, dyb) THEN dya ELSE dyb
    IN  [xmin |-> Offset(c.x, dx1), xmax |-> Offset(c.x, dx2),
         ymin |-> Offset(c.y, dy1), ymax |-> Offset(c.y, dy2)]

Failure(name, where) == [error |-> name, from |-> where]

IsFailure(v) == "error" \in DOMAIN v

\* BoundingBox.from_float: floor(min + 0.5), ceil(max + 0.5) in whole pixels;
\* int() of a NaN raises ValueError
from_float(e) ==
    IF NaNv \in {e.xmin, e.xmax, e.ymin, e.ymax}
      THEN Failure("ValueError", "from_float")
      ELSE [ixmin |-> (e.xmin.v + 1) \div 2, ixmax |-> -((-(e.xmax.v + 1)) \div 2),
            iymin |-> (e.ymin.v + 1) \div 2, iymax |-> -((-(e.ymax.v + 1)) \div 2)]

\* lines 107-145
BoundingBox(c, w, h, a) == from_float(BoundingBoxExtents(c, w, h, a))

\* mutant: the include flag is not consulted
Included_Ignored(m) == TRUE

\* line 92: self.meta.get('include', True)
Included(m) == IF m.include = Absent THEN TRUE ELSE m.include = "True"

\* lines 88-91.  With dx and dy the offsets of the point, the test
\*   (2 (cos dx + sin dy) / width)^2 + (2 (sin dx - cos dy) / height)^2 <= 1
\* is decided on integers after multiplying by width^2 height^2; with a zero
\* width or height a quotient is an infinity or a NaN and the test is False.
InEllipse(c, w, h, a, p) ==
    LET dx == p.x - c.x
        dy == p.y - c.y
        u  == Cos(a) * dx + Sin(a) * dy
        v  == Sin(a) * dx - Cos(a) * dy
    IN  IF w = 0 \/ h = 0 THEN FALSE
        ELSE 4 * u * u * h * h + 4 * v * v * w * w <= w * w * h * h

\* lines 84-95
Contains(c, w, h, a, m, p) ==
    IF Included(m) THEN InEllipse(c, w, h, a, p) ELSE ~InEllipse(c, w, h, a, p)

Modes == {"center", "subpixels", "exact"}

\* PixelRegion._validate_mode: mode is one of the three names and subpixels >= 1
ValidMode(mode, subpixels) == mode \in Modes /\ subpixels >= 1

\* lines 153-154
EffectiveMode(mode) == IF mode = "center" THEN "subpixels" ELSE mode

\* mutant: the subpixels argument is kept in mode 'center'
EffectiveSubpixels_Kept(mode, subpixels) == subpixels

\* lines 153, 155
EffectiveSubpixels(mode, subpixels) == IF mode = "center" THEN 1 ELSE subpixels

\* lines 167-170
UseExact(mode) == IF mode = "subpixels" THEN 0 ELSE 1

\* line 175: self.angle.to(u.rad).value, a multiple of pi
Radians(a) == [pi_times |-> a, over |-> 180]

\* elliptical_overlap_grid: the mask is a function of the eleven arguments
elliptical_overlap_grid(xmin, xmax, ymin, ymax, nx, ny, rx, ry, theta, use_exact, subpixels) ==
    [xmin |-> xmin, xmax |-> xmax, ymin |-> ymin, ymax |-> ymax, nx |-> nx, ny |-> ny,
     rx |-> rx, ry |-> ry, theta |-> theta, use_exact |-> use_exact,
     subpixels |-> subpixels]

\* lines 147-179
ToMask(c, w, h, a, mode, subpixels) ==
    IF ~ValidMode(mode, subpixels) THEN Failure("ValueError", "_validate_mode")
    ELSE
    LET mode2 == EffectiveMode(mode)
        sub2  == EffectiveSubpixels(mode, subpixels)
        bbox  == BoundingBox(c, w, h, a)
    IN  IF IsFailure(bbox) THEN bbox
        ELSE [fraction |-> elliptical_overlap_grid(
                               Px(bbox.ixmin) - 1 - c.x, Px(bbox.ixmax) - 1 - c.x,
                               Px(bbox.iymin) - 1 - c.y, Px(bbox.iymax) - 1 - c.y,
                               bbox.ixmax - bbox.ixmin, bbox.iymax - bbox.iymin,
                               Half(w), Half(h), Radians(a),
                               UseExact(mode2), sub2),
              bbox |-> bbox]

\* Each behaviour of this part applies one operation to one region: the three
\* operations leave the region as it is, so a second call would start from the
\* same region.

\* lines 84-95
contains(p) ==
    /\ result = NoResult
    /\ result' = [op |-> "contains", pixcoord |-> p, before |-> Params,
                  value |-> Contains(center, width, height, angle, heap[meta], p)]
    /\ UNCHANGED <<center, width, height, angle, meta, visual, heap>>
    /\ UNCHANGED <<selVars, frameVars>>

\* lines 107-145
bounding_box ==
    /\ result = NoResult
    /\ result' = [op |-> "bounding_box",
                  extents |-> BoundingBoxExtents(center, width, height, angle),
                  value |-> BoundingBox(center, width, height, angle)]
    /\ UNCHANGED <<center, width, height, angle, meta, visual, heap>>
    /\ UNCHANGED <<selVars, frameVars>>

\* lines 147-179
to_mask(mode, subpixels) ==
    /\ result = NoResult
    /\ result' = [op |-> "to_mask", mode |-> mode, subpixels |-> subpixels,
                  value |-> ToMask(center, width, height, angle, mode, subpixels)]
    /\ UNCHANGED <<center, width, height, angle, meta, visual, heap>>
    /\ UNCHANGED <<selVars, frameVars>>

\* the region of the documented example: center (15, 10), width 16, height 10
ExampleRegion == [center |-> [x |-> Px(15), y |-> Px(10)], width |-> Px(16),
                  height |-> Px(10), angle |-> 0]

GeomRegions ==
    [center : [x : 0..Px(MaxCoord), y : 0..Px(MaxCoord)],
     width  : {Px(i) : i \in 0..MaxAxis},
     height : {Px(i) : i \in 0..MaxAxis},
     angle  : GeomAngles]
    \cup {ExampleRegion}

GeomPoints == [x : 0..Px(MaxCoord), y : 0..Px(MaxCoord)] \cup {ExampleRegion.center}

\* lines 70-77: any region of the bounded family, with or without an include flag
InitGeom ==
    /\ \E r \in GeomRegions :
          /\ center = r.center /\ width = r.width
          /\ height = r.height /\ angle = r.angle
    /\ meta = 1 /\ visual = 2
    /\ \E inc \in {Absent, "True", "False"} :
          heap = <<[EmptyDict EXCEPT !.include = inc], EmptyDict>>
    /\ mpl_selector = Unset
    /\ mpl_selector_callback = Absent
    /\ pc = "idle"
    /\ loc = Unset
    /\ raised = "none"
    /\ ncalls = 0 /\ nevents = 0 /\ ncb = 0
    /\ lastcb = Unset
    /\ upd = [old |-> Params, new |-> Params]
    /\ observed = Unset
    /\ result = NoResult
    /\ wcs = NoWcs
    /\ sky = Unset /\ pixel = Unset
    /\ lastop = "init"
    /\ nconv = 0

NextGeom ==
    \/ \E p \in GeomPoints : contains(p)
    \/ bounding_box
    \/ \E mode \in Modes \cup {"other"}, subpixels \in 0..MaxSubpixels :
           to_mask(mode, subpixels)

SpecGeom == InitGeom /\ [][NextGeom]_vars

(* ------------------------ claims: the geometry ------------------------- *)

\* C5: contains(P) on a region with include=False is the negation of
\* contains(P) on a region of the same geometry with include=True or with no
\* include key; contains changes no field of the region.
C5_IncludeNegates ==
    result.op = "contains" =>
        /\ result.before = Params
        /\ heap[meta].include = "False" =>
              /\ result.value = ~Contains(center, width, height, angle,
                                          [heap[meta] EXCEPT !.include = "True"],
                                          result.pixcoord)
              /\ result.value = ~Contains(center, width, height, angle,
                                          [heap[meta] EXCEPT !.include = Absent],
                                          result.pixcoord)

\* contains answered True under include=False for a point off a proper ellipse
C5_Witness ==
    /\ result.op = "contains"
    /\ heap[meta].include = "False"
    /\ result.value
    /\ width > 0 /\ height > 0 /\ width # height /\ angle = 90

\* C6: to_mask(mode='center', subpixels=k) hands the overlap grid the arguments
\* of to_mask(mode='subpixels', subpixels=1), use_exact=0 and subpixels=1
\* among them, and returns the same bounding box; only mode='exact' selects
\* use_exact=1.
C6_CenterIsOneSubpixel ==
    (result.op = "to_mask" /\ ValidMode(result.mode, result.subpixels)) =>
        /\ result.mode = "center" =>
              result.value = ToMask(center, width, height, angle, "subpixels", 1)
        /\ (result.mode = "center" /\ ~IsFailure(result.value)) =>
              /\ result.value.fraction.use_exact = 0
              /\ result.value.fraction.subpixels = 1
        /\ ~IsFailure(result.value) =>
              (result.value.fraction.use_exact = 1 <=> result.mode = "exact")

\* a mask of mode 'center' made with a subpixels argument other than 1
C6_Witness ==
    /\ result.op = "to_mask"
    /\ result.mode = "center"
    /\ result.subpixels >= 2
    /\ ~IsFailure(result.value)
    /\ result.value.fraction.nx > 0

\* the closed-form box of an ellipse turned by a multiple of 90 degrees
ClosedFormBox(c, w, h, a) ==
    IF a \in {0, 180}
      THEN [xmin |-> [v |-> c.x - w \div 2], xmax |-> [v |-> c.x + w \div 2],
            ymin |-> [v |-> c.y - h \div 2], ymax |-> [v |-> c.y + h \div 2]]
      ELSE [xmin |-> [v |-> c.x - h \div 2], xmax |-> [v |-> c.x + h \div 2],
            ymin |-> [v |-> c.y - w \div 2], ymax |-> [v |-> c.y + w \div 2]]

\* C7: at every multiple of 90 degrees bounding_box computes its extents
\* without failing on a division by zero and they are the closed-form box,
\* center.x +- width/2 and center.y +- height/2 at 0 and 180 degrees, swapped
\* at 90 and 270; for center (15,10), width 16, height 10, angle 0 they are
\* x in [7,23], y in [5,15].
C7_QuarterTurnBox ==
    result.op = "bounding_box" =>
        /\ ~IsFailure(result.value)
        /\ result.extents = ClosedFormBox(center, width, height, angle)
        /\ Params = ExampleRegion =>
              result.extents = [xmin |-> [v |-> 14], xmax |-> [v |-> 46],
                                ymin |-> [v |-> 10], ymax |-> [v |-> 30]]


(* ------------------- frames: to_sky and to_pixel ------------------------ *)

(***************************************************************************)
(* The four operations of lines 101-104 and 349-352 are float operations:  *)
(* each returns the representable value nearest to the exact result, ties  *)
(* to the even significand.  The model's floats are the integers with at   *)
(* most MantissaBits significant bits (a double has 53); the inputs are    *)
(* small integers, so the narrow significand is what makes an operation    *)
(* round as it does on doubles with more digits.                           *)
(***************************************************************************)

RECURSIVE BitLen(_)
BitLen(n) == IF n = 0 THEN 0 ELSE 1 + BitLen(n \div 2)

RECURSIVE Pow2(_)
Pow2(k) == IF k = 0 THEN 1 ELSE 2 * Pow2(k - 1)

\* the distance between neighbouring floats at n
Ulp(n) == IF BitLen(Abs(n)) <= MantissaBits THEN 1
          ELSE Pow2(BitLen(Abs(n)) - MantissaBits)

\* the float nearest to num / den, den > 0
RoundRat(num, den) ==
    LET a   == Abs(num)
        q   == a \div den
        u   == Ulp(q)
        lo  == (q \div u) * u
        hi  == lo + u
        rem == 2 * (a - lo * den)
        r   == IF rem < u * den THEN lo
               ELSE IF rem > u * den THEN hi
               ELSE IF (lo \div u) % 2 = 0 THEN lo ELSE hi
    IN  IF num < 0 THEN -r ELSE r

FAdd(x, y) == RoundRat(x + y, 1)
FSub(x, y) == RoundRat(x - y, 1)
FMul(x, y) == RoundRat(x * y, 1)
FDiv(x, y) == RoundRat(x, y)

\* pixel_to_skycoord(x, y, wcs): the projection of a point
pixel_to_skycoord(x, y, w) == [lon |-> w.crval1 + x, lat |-> w.crval2 + y]

\* skycoord_to_pixel_scale_angle(center, wcs): the point back in the pixel
\* frame, with the scale and the north angle of the projection there
skycoord_to_pixel_scale_angle(c, w) ==
    [center |-> [x |-> c.lon - w.crval1, y |-> c.lat - w.crval2],
     scale |-> w.scale, north_angle |-> w.north_angle]

\* lines 101-102: self.width / scale
SkyLength(v, scale) == FDiv(v, scale)

\* line 104: self.angle - (north_angle - 90 * u.deg)
SkyAngle(a, north_angle) == FSub(a, FSub(north_angle, 90))

\* lines 349-350: self.width.to('deg').value * scale
PixelLength(v, scale) == FMul(v, scale)

\* mutant: the offset of the north angle is subtracted a second time
PixelAngle_Subtracted(a, north_angle) == FSub(a, FSub(north_angle, 90))

\* line 352: self.angle + (north_angle - 90 * u.deg)
PixelAngle(a, north_angle) == FAdd(a, FSub(north_angle, 90))

\* lines 76-77, 342-343: `meta or RegionMeta()`: the dict handed in unless it is
\* empty, and then a new one.  The heap after both assignments, and the references.
HeapAfterInit(h, m, v) ==
    LET h1 == IF IsEmpty(h[m]) THEN Append(h, EmptyDict) ELSE h
    IN  IF IsEmpty(h1[v]) THEN Append(h1, EmptyDict) ELSE h1

MetaAfterInit(h, m) == IF IsEmpty(h[m]) THEN Len(h) + 1 ELSE m

VisualAfterInit(h, m, v) ==
    IF IsEmpty(h[v]) THEN (IF IsEmpty(h[m]) THEN Len(h) + 2 ELSE Len(h) + 1) ELSE v

\* lines 97-105
to_sky ==
    /\ nconv < MaxConv
    /\ nconv' = nconv + 1
    /\ LET c  == pixel_to_skycoord(center.x, center.y, wcs)
           sa == skycoord_to_pixel_scale_angle(c, wcs)
       IN  sky' = [center |-> c,
                   height |-> SkyLength(height, sa.scale),
                   width  |-> SkyLength(width, sa.scale),
                   angle  |-> SkyAngle(angle, sa.north_angle),
                   meta   |-> MetaAfterInit(heap, meta),
                   visual |-> VisualAfterInit(heap, meta, visual)]
    /\ heap' = HeapAfterInit(heap, meta, visual)
    /\ lastop' = "to_sky"
    /\ UNCHANGED <<center, width, height, angle, meta, visual, wcs, pixel>>
    /\ UNCHANGED <<selVars, geomVars>>

\* lines 345-353, on the region to_sky returned
to_pixel ==
    /\ sky # Unset
    /\ nconv < MaxConv
    /\ nconv' = nconv + 1
    /\ LET sa == skycoord_to_pixel_scale_angle(sky.center, wcs)
       IN  pixel' = [center |-> [x |-> sa.center.x, y |-> sa.center.y],
                     height |-> PixelLength(sky.height, sa.scale),
                     width  |-> PixelLength(sky.width, sa.scale),
                     angle  |-> PixelAngle(sky.angle, sa.north_angle),
                     meta   |-> MetaAfterInit(heap, sky.meta),
                     visual |-> VisualAfterInit(heap, sky.meta, sky.visual)]
    /\ heap' = HeapAfterInit(heap, sky.meta, sky.visual)
    /\ lastop' = "to_pixel"
    /\ UNCHANGED <<center, width, height, angle, meta, visual, wcs, sky>>
    /\ UNCHANGED <<selVars, geomVars>>

\* lines 342, 76: the caller sets returned.meta['include'] = b on the region
\* to_sky (line 103) or to_pixel (line 351) returned
set_include(r, b) ==
    /\ r # Unset
    /\ heap[r.meta].include # b
    /\ heap' = [heap EXCEPT ![r.meta].include = b]
    /\ lastop' = "set_include"
    /\ UNCHANGED <<center, width, height, angle, meta, visual, wcs, sky, pixel, nconv>>
    /\ UNCHANGED <<selVars, geomVars>>

FrameAngles == {0, 1, 30, 90}

\* lines 70-77: a pixel region with empty or non-empty meta and visual, and a
\* projection that stays the same for the whole behaviour
InitFrame ==
    /\ \E i \in 0..MaxCoord : center = [x |-> i, y |-> MaxCoord - i]
    /\ width  \in {Px(i) : i \in 0..MaxAxis}
    /\ height \in {Px(i) : i \in 0..MaxAxis}
    /\ angle  \in FrameAngles
    /\ meta = 1 /\ visual = 2
    /\ \E inc \in {Absent, "True", "False"}, lab \in {Absent, "x"}, col \in {Absent, "red"} :
          heap = <<[EmptyDict EXCEPT !.include = inc, !.label = lab],
                   [EmptyDict EXCEPT !.color = col]>>
    /\ mpl_selector = Unset
    /\ mpl_selector_callback = Absent
    /\ pc = "idle"
    /\ loc = Unset
    /\ raised = "none"
    /\ ncalls = 0 /\ nevents = 0 /\ ncb = 0
    /\ lastcb = Unset
    /\ upd = [old |-> Params, new |-> Params]
    /\ observed = Unset
    /\ result = NoResult
    /\ wcs \in [crval1 : {10}, crval2 : {20}, scale : {1, 3}, north_angle : {0, 90, 180}]
    /\ sky = Unset /\ pixel = Unset
    /\ lastop = "init"
    /\ nconv = 0

NextFrame ==
    \/ to_sky
    \/ to_pixel
    \/ \E b \in {"True", "False"} : set_include(sky, b)
    \/ \E b \in {"True", "False"} : set_include(pixel, b)

SpecFrame == InitFrame /\ [][NextFrame]_vars

(* ------------------------- claims: the frames -------------------------- *)

\* the lengths agree up to the rounding of the division and of the multiplication
WithinDivMul(back, orig, mid, scale) ==
    2 * Abs(back - orig) <= scale * Ulp(mid) + Ulp(back)

\* C8, as claimed: for a projection with the same scale and north angle in
\* both directions, to_sky followed by to_pixel gives back the center, the
\* angle exactly, and the width and height up to the division-multiplication
\* tolerance.
C8_RoundTripExactAngle ==
    pixel # Unset =>
        /\ pixel.center = center
        /\ pixel.angle = angle
        /\ WithinDivMul(pixel.width, width, sky.width, wcs.scale)
        /\ WithinDivMul(pixel.height, height, sky.height, wcs.scale)

\* C8, amended: to_sky divides width and height by scale and subtracts
\* (north_angle - 90) from the angle, to_pixel multiplies by scale and adds
\* (north_angle - 90); the round trip gives back the center, and the angle,
\* the width and the height each up to the rounding of its two operations.
C8_RoundTrip ==
    LET d == wcs.north_angle - 90 IN
    /\ sky # Unset =>
          /\ 2 * Abs(sky.width * wcs.scale - width) <= wcs.scale * Ulp(sky.width)
          /\ 2 * Abs(sky.height * wcs.scale - height) <= wcs.scale * Ulp(sky.height)
          /\ 2 * Abs(sky.angle - (angle - d)) <= Ulp(sky.angle)
    /\ pixel # Unset =>
          /\ pixel.center = center
          /\ 2 * Abs(pixel.angle - (sky.angle + d)) <= Ulp(pixel.angle)
          /\ 2 * Abs(pixel.angle - angle) <= Ulp(sky.angle) + Ulp(pixel.angle)
          /\ WithinDivMul(pixel.width, width, sky.width, wcs.scale)
          /\ WithinDivMul(pixel.height, height, sky.height, wcs.scale)

\* a round trip through a projection with scale 3 and north angle 180 of a
\* region whose width the division does not leave exact
C8_Witness ==
    /\ pixel # Unset
    /\ wcs.scale = 3 /\ wcs.north_angle = 180
    /\ angle = 30 /\ pixel.angle = 30
    /\ width > 0 /\ pixel.width # width

\* C10: to_sky and to_pixel change none of the source's center, width, height,
\* angle, meta and visual, and setting the include flag in the returned
\* region's meta changes neither the source's meta nor what the source's
\* contains answers, whether the source's meta is empty or not.
C10_ReturnedIndependent ==
    [][ /\ lastop' \in {"to_sky", "to_pixel"} =>
              /\ Params' = Params
              /\ meta' = meta /\ visual' = visual
              /\ heap'[meta] = heap[meta]
              /\ heap'[visual] = heap[visual]
        /\ lastop' = "set_include" =>
              /\ heap'[meta] = heap[meta]
              /\ Included(heap'[meta]) = Included(heap[meta]) ]_vars

=============================================================================
